---- MODULE Spec2Model ----
(***************************************************************************)
(* Model of the service-lifecycle orchestrator (package app):             *)
(* construction by New and its options, the caller's configuration,       *)
(* Start with its listener goroutines and the readiness goroutine, the    *)
(* signal trap, IsAlive, the status handlers, and Stop.                   *)
(*                                                                         *)
(* Listener handles are identified by the address they were registered    *)
(* with; the caller is assumed to register distinct addresses, so the     *)
(* k-th registration of the process gets address k.                       *)
(***************************************************************************)
EXTENDS Naturals, Sequences, FiniteSets

\* ------------------------------------------------------------- bounds
MaxOpts == 3        \* options handed to New when New is checked on its own
MaxListeners == 2   \* listeners of a deployment (options and AddHTTPServer together)
MaxSubs == 1        \* sub-services put into the SubServices map
MaxAliveCalls == 1  \* calls of IsAlive
MaxCheckers == 3    \* checkers a health handler is built with
MaxRequests == 2    \* liveness requests served by that handler

VARIABLES
    mainPc,       \* where the caller's goroutine is
    options,      \* the options New was called with
    applyLog,     \* positions of the options whose Apply New has called, in order
    service,      \* what New returned: "none" (not yet called), "nil", "svc"
    newErr,       \* the error New returned: 0 for nil, k for the error of option k
    ctx,          \* Service.ctx: "live" or "cancelled" (a context nobody cancels,
                  \* such as context.Background(), stays "live")
    GRPCServers,  \* Service.GRPCServers: sequence of addresses
    HTTPServers,  \* Service.HTTPServers: sequence of [Addr, tech]
    DB,           \* Service.DB: "nil" or "db"
    Redis,        \* Service.Redis: "nil" or "redis"
    SubServices,  \* Service.SubServices: the set of keys of the map
    isReady,      \* Service.isReady: <<>> (nothing stored) or <<b>>, b the stored boolean
    sigHandler,   \* Service.sigHandler: "nil" or "trap"
    trap,         \* signals buffered in the trap channel (capacity 1)
    consumer,     \* whether the caller runs a goroutine receiving from ErrChan
    tasks,        \* the listener goroutines Start spawned, in spawn order
    rdy,          \* the goroutine running Ready
    alive,        \* the running call of IsAlive
    aliveCalls,   \* calls of IsAlive made so far
    startRet,     \* what Start returned: "none", "nil", "ctxErr"
    waitRet,      \* what sigHandler.Wait returned to Start: "none", "ErrTermSig", "ctxErr"
    exitStatus,   \* <<>> while no os.Exit was called, <<code>> once one was
    stopCalls,    \* calls of Stop so far
    released,     \* release calls made by Stop, in order
    failedAt,     \* kind of the first release that returned an error ("none": none did)
    readyResp,    \* status of the last readiness query's answer (0: none yet)
    checkers,     \* what each Checker of a health handler returns when called now
    liveLog       \* the liveness requests served: the checkers then, and the answer

vars == <<mainPc, options, applyLog, service, newErr, ctx, GRPCServers, HTTPServers,
          DB, Redis, SubServices, isReady, sigHandler, trap, consumer,
          tasks, rdy, alive, aliveCalls, startRet, waitRet, exitStatus, stopCalls, released, failedAt,
          readyResp, checkers, liveLog>>

cfgVars == <<options, applyLog, service, newErr>>
svcVars == <<GRPCServers, HTTPServers, DB, Redis, SubServices>>
sigVars == <<sigHandler, trap>>
stopVars == <<stopCalls, released, failedAt>>
retVars == <<startRet, waitRet, exitStatus>>
healthVars == <<checkers, liveLog>>
probeVars == <<alive, aliveCalls, readyResp, healthVars>>

\* ------------------------------------------------------------ helpers
OptionKinds == {"grpc", "tech", "db", "redis", "fail"}

RECURSIVE SeqsUpTo(_, _)
SeqsUpTo(S, n) ==
    IF n = 0 THEN {<<>>}
    ELSE LET shorter == SeqsUpTo(S, n - 1)
         IN  shorter \cup {Append(s, x) : s \in {t \in shorter : Len(t) = n - 1}, x \in S}

RECURSIVE CountKind(_, _)
CountKind(opts, kinds) ==
    IF opts = <<>> THEN 0
    ELSE (IF Head(opts) \in kinds THEN 1 ELSE 0) + CountKind(Tail(opts), kinds)

Range(s) == {s[i] : i \in DOMAIN s}

\* The process is over: main returned after New failed, Stop called os.Exit, or
\* an untrapped signal ended it (in Start, or elsewhere).
Ended == mainPc \in {"ended", "exited", "killed", "killed_in_start"}

Running == mainPc # "new" /\ ~Ended

\* ---------------------------------------------------------- options.go
\* The struct New allocates, before any option.
EmptyService == [GRPCServers |-> <<>>, HTTPServers |-> <<>>, DB |-> "nil", Redis |-> "nil"]

\* Option.Apply for the option at position k: the struct after it, and whether
\* it succeeded (only a caller-supplied Option fails; the package's own return nil).
Apply(kind, s, k) ==
    CASE kind = "grpc" -> [s |-> [s EXCEPT !.GRPCServers = Append(@, k)], ok |-> TRUE]
      [] kind = "tech" ->
           [s |-> [s EXCEPT !.HTTPServers = Append(@, [Addr |-> k, tech |-> TRUE])], ok |-> TRUE]
      [] kind = "db" -> [s |-> [s EXCEPT !.DB = "db"], ok |-> TRUE]
      [] kind = "redis" -> [s |-> [s EXCEPT !.Redis = "redis"], ok |-> TRUE]
      [] OTHER -> [s |-> s, ok |-> FALSE]

\* Mutant: the loop goes on to the next option after a failed one.
RECURSIVE NewLoopSkipFailed(_, _, _, _)
NewLoopSkipFailed(s, opts, k, log) ==
    IF k > Len(opts) THEN [s |-> s, err |-> 0, log |-> log]
    ELSE NewLoopSkipFailed(Apply(opts[k], s, k).s, opts, k + 1, Append(log, k))

\* The option loop of New from position k on.
RECURSIVE NewLoop(_, _, _, _)
NewLoop(s, opts, k, log) ==
    IF k > Len(opts) THEN [s |-> s, err |-> 0, log |-> log]
    ELSE LET r == Apply(opts[k], s, k)
         IN  IF ~r.ok THEN [s |-> r.s, err |-> k, log |-> Append(log, k)]
             ELSE NewLoop(r.s, opts, k + 1, Append(log, k))

\* Mutant: New without `isReady.Store(false)`.
InitialReadyUnset == <<>>

\* New's `isReady.Store(false)`: what the flag holds after construction.
InitialReady == <<FALSE>>

NoTask == [pc |-> "none", i |-> 0, subs |-> TRUE, grpc |-> TRUE, http |-> TRUE,
           db |-> TRUE, redis |-> TRUE]
NoAlive == [pc |-> "idle", i |-> 0, grpc |-> TRUE, http |-> TRUE, retried |-> FALSE,
            db |-> TRUE, redis |-> TRUE, result |-> FALSE]

Init ==
    /\ mainPc = "new"
    /\ options = <<>>
    /\ applyLog = <<>>
    /\ service = "none"
    /\ newErr = 0
    /\ ctx = "live"
    /\ GRPCServers = <<>>
    /\ HTTPServers = <<>>
    /\ DB = "nil"
    /\ Redis = "nil"
    /\ SubServices = {}
    /\ isReady = <<>>
    /\ sigHandler = "nil"
    /\ trap = 0
    /\ consumer = FALSE
    /\ tasks = <<>>
    /\ rdy = NoTask
    /\ alive = NoAlive
    /\ aliveCalls = 0
    /\ startRet = "none"
    /\ waitRet = "none"
    /\ exitStatus = <<>>
    /\ stopCalls = 0
    /\ released = <<>>
    /\ failedAt = "none"
    /\ checkers = <<>>
    /\ liveLog = <<>>
    /\ readyResp = 0

\* New(ctx, name, options...): isReady.Store(false), the struct, the option loop.
NewWith(opts) ==
    /\ mainPc = "new"
    /\   LET r == NewLoop(EmptyService, opts, 1, <<>>)
            IN  /\ options' = opts
                /\ applyLog' = r.log
                /\ GRPCServers' = r.s.GRPCServers
                /\ HTTPServers' = r.s.HTTPServers
                /\ DB' = r.s.DB
                /\ Redis' = r.s.Redis
                /\ newErr' = r.err
                /\ service' = IF r.err = 0 THEN "svc" ELSE "nil"
                /\ mainPc' = IF r.err = 0 THEN "config" ELSE "ended"
    /\ isReady' = InitialReady
    /\ UNCHANGED <<ctx, SubServices, sigVars, consumer, tasks, rdy, retVars, stopVars,
                   probeVars>>

\* The option lists of the deployments whose life is followed: gRPC listeners,
\* then at most one status listener, then both handles or none.
Deployments ==
    {[i \in 1..g |-> "grpc"] \o h \o d :
        g \in 0..MaxListeners, h \in {<<>>, <<"tech">>}, d \in {<<>>, <<"db", "redis">>}}

New ==
    \E opts \in Deployments :
        /\ CountKind(opts, {"grpc", "tech"}) <= MaxListeners
        /\ NewWith(opts)

\* New on any option list, a failing caller-supplied option included.
NewAny == \E opts \in SeqsUpTo(OptionKinds, MaxOpts) : NewWith(opts)

\* ------------------------------------------------- caller's configuration
Listeners == Len(GRPCServers) + Len(HTTPServers)

\* Mutant: a second goroutine of the caller goes on configuring after Start.
ConfiguringAnytime == Running

\* The caller configures the orchestrator between New and Start, on the one
\* goroutine that then blocks in Start (as the example's main does).
Configuring == mainPc = "config"

\* AddHTTPServer(httpServer): append; the caller's own server has no status routes.
AddHTTPServer ==
    /\ Configuring
    /\ Listeners < MaxListeners
    /\ HTTPServers' = Append(HTTPServers, [Addr |-> Len(options) + Len(HTTPServers) + 1,
                                           tech |-> FALSE])
    /\ UNCHANGED <<mainPc, cfgVars, ctx, GRPCServers, DB, Redis, SubServices, isReady,
                   sigVars, consumer, tasks, rdy, retVars, stopVars, probeVars>>

\* The caller puts a sub-service into the exported SubServices map.
AddSubService ==
    /\ Configuring
    /\ Cardinality(SubServices) < MaxSubs
    /\ SubServices' = SubServices \cup {Cardinality(SubServices) + 1}
    /\ UNCHANGED <<mainPc, cfgVars, ctx, GRPCServers, HTTPServers, DB, Redis, isReady,
                   sigVars, consumer, tasks, rdy, retVars, stopVars, probeVars>>

\* TermSignalTrap(): a channel of capacity 1 registered for SIGINT and SIGTERM,
\* stored in the unexported sigHandler field by code of the package.
TermSignalTrap == "trap"

InstallTrap ==
    /\ mainPc = "config"
    /\ sigHandler = "nil"
    /\ sigHandler' = TermSignalTrap
    /\ UNCHANGED <<mainPc, cfgVars, ctx, svcVars, isReady, trap, consumer,
                   tasks, rdy, retVars, stopVars, probeVars>>

\* The caller starts a goroutine that receives from the exported ErrChan.
DrainErrChan ==
    /\ mainPc = "config"
    /\ ~consumer
    /\ consumer' = TRUE
    /\ UNCHANGED <<mainPc, cfgVars, ctx, svcVars, isReady, sigVars,
                   tasks, rdy, retVars, stopVars, probeVars>>

\* ------------------------------------------------------------ environment
\* The owner of a cancellable context cancels it.
CancelCtx ==
    /\ ~Ended
    /\ ctx = "live"
    /\ ctx' = "cancelled"
    /\ UNCHANGED <<mainPc, cfgVars, svcVars, isReady, sigVars, consumer,
                   tasks, rdy, retVars, stopVars, probeVars>>

\* The process ends: its goroutines end with it.
Die(how) ==
    /\ mainPc' = IF mainPc = "waiting" /\ how = "killed" THEN "killed_in_start" ELSE how
    /\ tasks' = <<>>
    /\ rdy' = NoTask
    /\ alive' = NoAlive

\* SIGINT or SIGTERM reaches the process: signal.Notify puts it into the trap
\* channel (dropped when the buffer of 1 is full); with no trap registered the
\* Go runtime's default disposition ends the process.
TermSignal ==
    /\ ~Ended
    /\ IF sigHandler = "trap"
       THEN /\ trap = 0
            /\ trap' = 1
            /\ UNCHANGED <<mainPc, tasks, rdy, alive>>
       ELSE /\ Die("killed")
            /\ UNCHANGED trap
    /\ UNCHANGED <<cfgVars, ctx, svcVars, isReady, sigHandler, consumer,
                   retVars, stopVars, aliveCalls, readyResp, healthVars>>

\* ------------------------------------------------------------------ Start
\* Mutant: the goroutines share the loop variable, which ends on the last server.
SpawnHTTPLoopVar(i) ==
    [kind |-> "http", srv |-> Len(HTTPServers), pc |-> "spawned", binds |-> 0, errs |-> 0,
     end |-> "none"]

\* The goroutine of the i-th HTTP server: `httpServ := httpServ` captures it.
SpawnHTTP(i) ==
    [kind |-> "http", srv |-> i, pc |-> "spawned", binds |-> 0, errs |-> 0, end |-> "none"]

\* The goroutine of the i-th gRPC server: `grpcServer := grpcServer` captures it.
SpawnGRPC(i) ==
    [kind |-> "grpc", srv |-> i, pc |-> "spawned", binds |-> 0, errs |-> 0, end |-> "none"]

\* Start up to `go s.Ready()`: one goroutine per HTTP server, then one per gRPC
\* server, then the readiness goroutine; Start then blocks in sigHandler.Wait.
StartSpawn ==
    /\ mainPc = "config"
    /\ tasks' = [i \in 1..Len(HTTPServers) |-> SpawnHTTP(i)]
                \o [i \in 1..Len(GRPCServers) |-> SpawnGRPC(i)]
    /\ rdy' = [NoTask EXCEPT !.pc = "subs"]
    /\ mainPc' = "waiting"
    /\ UNCHANGED <<cfgVars, ctx, svcVars, isReady, sigVars, consumer,
                   retVars, stopVars, probeVars>>

\* Mutant: Wait without the `case <-ctx.Done()` branch.
WaitResultsSignalOnly ==
    IF sigHandler = "trap" /\ trap > 0 THEN {"ErrTermSig"} ELSE {}

\* SignalTrap.Wait(ctx): a select over the trap channel and ctx.Done(); a nil
\* trap channel and the background context's nil Done channel are never ready.
WaitResults ==
    (IF sigHandler = "trap" /\ trap > 0 THEN {"ErrTermSig"} ELSE {})
    \cup (IF ctx = "cancelled" THEN {"ctxErr"} ELSE {})

\* Mutant: Start logs the error of Wait and returns nil.
StartResultSwallow(err) == "nil"

\* Mutant: Start returns whatever Wait returned.
StartResultRaw(err) == err

\* What Start returns for the error Wait returned.
StartResult(err) == IF err # "nil" /\ err # "ErrTermSig" THEN err ELSE "nil"

StartReturn ==
    /\ mainPc = "waiting"
    /\ \E err \in WaitResults :
         /\ waitRet' = err
         /\ startRet' = StartResult(err)
         /\ trap' = IF err = "ErrTermSig" THEN trap - 1 ELSE trap
    /\ mainPc' = "returned"
    /\ UNCHANGED <<cfgVars, ctx, svcVars, isReady, sigHandler, consumer,
                   tasks, rdy, exitStatus, stopVars, probeVars>>

\* --------------------------------------------------- listener goroutines
HTTPShut(i) == \E k \in DOMAIN released : released[k].res = <<"http", i>>
GRPCStopped(i) == \E k \in DOMAIN released : released[k].res = <<"grpc", i>>

\* Mutant: the HTTP goroutine without the errors.Is(err, http.ErrServerClosed) test.
HTTPReportsAll(err) == err # "nil"

\* The goroutines' filters: which results are sent to ErrChan.
HTTPReports(err) == err # "nil" /\ err # "ErrServerClosed"
GRPCReports(err) == err # "nil" /\ err # "ErrServerStopped"

\* What a serve call returns when its server was closed, stopped or drained.
ClosedResults == {"nil", "ErrServerClosed", "ErrServerStopped"}

\* The goroutine after its call returned err: it sends the error when the filter
\* says so, and is done otherwise; `end` keeps why the call ended.
AfterCall(t, err, reports) ==
    LET why == IF err \in ClosedResults THEN "closed" ELSE "failed"
    IN  IF reports THEN [tasks[t] EXCEPT !.pc = "sending", !.errs = @ + 1, !.end = why]
        ELSE [tasks[t] EXCEPT !.pc = "done", !.end = why]

taskFrame == <<mainPc, cfgVars, ctx, svcVars, isReady, sigVars, consumer,
               rdy, retVars, stopVars, probeVars>>

\* httpServ.ListenAndServe() is called: after Shutdown it returns ErrServerClosed
\* at once; otherwise the bind fails or the server serves.
HTTPListen(t) ==
    /\ Running
    /\ tasks[t].kind = "http" /\ tasks[t].pc = "spawned"
    /\ \E err \in IF HTTPShut(tasks[t].srv) THEN {"ErrServerClosed"} ELSE {"nil", "bind"} :
         tasks' = [tasks EXCEPT ![t] =
                     IF err = "nil" THEN [@ EXCEPT !.pc = "serving", !.binds = @ + 1]
                     ELSE [AfterCall(t, err, HTTPReports(err)) EXCEPT !.binds = @ + 1]]
    /\ UNCHANGED taskFrame

\* ListenAndServe returns from serving: ErrServerClosed after Shutdown, an
\* accept error before.
HTTPServeEnd(t) ==
    /\ Running
    /\ tasks[t].kind = "http" /\ tasks[t].pc = "serving"
    /\ LET err == IF HTTPShut(tasks[t].srv) THEN "ErrServerClosed" ELSE "accept"
       IN  tasks' = [tasks EXCEPT ![t] = AfterCall(t, err, HTTPReports(err))]
    /\ UNCHANGED taskFrame

\* net.Listen("tcp", address): on an error the goroutine sends it and returns.
GRPCListen(t) ==
    /\ Running
    /\ tasks[t].kind = "grpc" /\ tasks[t].pc = "spawned"
    /\ \E err \in {"nil", "bind"} :
         tasks' = [tasks EXCEPT ![t] =
                     IF err = "nil" THEN [@ EXCEPT !.pc = "listening", !.binds = @ + 1]
                     ELSE [AfterCall(t, err, TRUE) EXCEPT !.binds = @ + 1]]
    /\ UNCHANGED taskFrame

\* server.Serve(listener) is called: a stopped server returns ErrServerStopped.
GRPCServe(t) ==
    /\ Running
    /\ tasks[t].kind = "grpc" /\ tasks[t].pc = "listening"
    /\ tasks' = [tasks EXCEPT ![t] =
                   IF GRPCStopped(tasks[t].srv)
                   THEN AfterCall(t, "ErrServerStopped", GRPCReports("ErrServerStopped"))
                   ELSE [@ EXCEPT !.pc = "serving"]]
    /\ UNCHANGED taskFrame

\* Serve returns from serving: nil after GracefulStop, an accept error before.
GRPCServeEnd(t) ==
    /\ Running
    /\ tasks[t].kind = "grpc" /\ tasks[t].pc = "serving"
    /\ LET err == IF GRPCStopped(tasks[t].srv) THEN "nil" ELSE "accept"
       IN  tasks' = [tasks EXCEPT ![t] = AfterCall(t, err, GRPCReports(err))]
    /\ UNCHANGED taskFrame

\* ErrChan is unbuffered (make(chan error)): a send completes only when a
\* receiver takes the value.
ErrChanCap == 0

CanSend == ErrChanCap > 0 \/ consumer

SendErr(t) ==
    /\ Running
    /\ tasks[t].pc = "sending"
    /\ CanSend
    /\ tasks' = [tasks EXCEPT ![t].pc = "done"]
    /\ UNCHANGED taskFrame

\* --------------------------------------------------- reachability, pings
HTTPReachable(i) ==
    \E t \in DOMAIN tasks :
        tasks[t].kind = "http" /\ tasks[t].srv = i /\ tasks[t].pc = "serving" /\ ~HTTPShut(i)

GRPCReachable(i) ==
    \E t \in DOMAIN tasks :
        tasks[t].kind = "grpc" /\ tasks[t].srv = i /\ tasks[t].pc = "serving"
        /\ ~GRPCStopped(i)

\* checkGRPCServerUp, one grpc.DialContext(ctx, address, WithBlock()): it returns a
\* connection once the server answers, and ctx's error once ctx is done.
DialGRPC(i) ==
    (IF GRPCReachable(i) THEN {"nil"} ELSE {})
    \cup (IF ctx = "cancelled" THEN {"ctxErr"} ELSE {})

\* Mutant: checkGRPCServerUp notes a failed dial and goes on to the next address.
AfterDialGRPCContinue(p, err) ==
    LET q == IF err # "nil" THEN [p EXCEPT !.grpc = FALSE] ELSE p
    IN  IF p.i < Len(GRPCServers) THEN [q EXCEPT !.i = @ + 1]
        ELSE [q EXCEPT !.pc = "http", !.i = 1]

\* checkGRPCServerUp after the dial of address i returned err: the next position
\* of the loop and the result so far (a failed dial returns false at once).
AfterDialGRPC(p, err) ==
    IF err # "nil" THEN [p EXCEPT !.pc = "http", !.i = 1, !.grpc = FALSE]
    ELSE IF p.i < Len(GRPCServers) THEN [p EXCEPT !.i = @ + 1]
    ELSE [p EXCEPT !.pc = "http", !.i = 1]

\* checkHTTPServerUp, one net.DialTimeout on the server's address.
DialHTTP(i) == IF HTTPReachable(i) THEN "nil" ELSE "refused"

\* Mutant: checkHTTPServerUp dials once and returns false when the dial failed.
AfterDialHTTPOnce(p, err) ==
    IF err # "nil" THEN [p EXCEPT !.i = @ + 1, !.http = FALSE]
    ELSE [p EXCEPT !.i = @ + 1]

\* checkHTTPServerUp after one dial returned err: `for err != nil` dials again,
\* and the function returns true when a dial succeeded.
AfterDialHTTP(p, err) ==
    IF err # "nil" THEN p
    ELSE [p EXCEPT !.i = @ + 1]

\* checkDBAlive: DB.Ping returned err.
checkDBAlive(err) == err = "nil"

\* checkRedisAlive: Redis.Ping returned (pong, err).
checkRedisAlive(pong, err) == pong = "PONG"

PingErrs == {"nil", "down"}
Pongs == {"PONG", ""}

\* The pings of the attached handles: the pairs (isDBAlive, isRedisAlive) that
\* IsAlive and Ready can compute; a nil handle is not pinged and counts as alive.
HandleChecks ==
    {<<d, r>> : d \in (IF DB = "nil" THEN {TRUE} ELSE {checkDBAlive(e) : e \in PingErrs}),
                r \in (IF Redis = "nil" THEN {TRUE}
                       ELSE {checkRedisAlive(pg, e) : pg \in Pongs, e \in PingErrs})}

\* ------------------------------------------------------------------ Ready
\* Where Ready and IsAlive go on after their first part: `if s.GRPCServers != nil`.
EnterChecks(p) ==
    IF GRPCServers # <<>> THEN [p EXCEPT !.pc = "grpc", !.i = 1]
    ELSE [p EXCEPT !.pc = "http", !.i = 1]

rdyFrame == <<mainPc, cfgVars, ctx, svcVars, sigVars, consumer, tasks, retVars,
              stopVars, probeVars>>

\* Ready, first loop: Ready() of every sub-service.
ReadySubsWith(allReady) ==
    /\ Running
    /\ rdy.pc = "subs"
    /\ ~allReady => SubServices # {}
    /\ rdy' = EnterChecks([rdy EXCEPT !.subs = allReady])
    /\ UNCHANGED <<rdyFrame, isReady>>

ReadySubs == \E allReady \in BOOLEAN : ReadySubsWith(allReady)

ReadyDialGRPC ==
    /\ Running
    /\ rdy.pc = "grpc"
    /\ \E err \in DialGRPC(rdy.i) : rdy' = AfterDialGRPC(rdy, err)
    /\ UNCHANGED <<rdyFrame, isReady>>

ReadyDialHTTP ==
    /\ Running
    /\ rdy.pc = "http" /\ rdy.i <= Len(HTTPServers)
    /\ rdy' = AfterDialHTTP(rdy, DialHTTP(rdy.i))
    /\ UNCHANGED <<rdyFrame, isReady>>

\* Mutant: Ready leaves the sub-services out of the conjunction.
ReadyValueNoSubs(subs, grpc, http, db, redis) == grpc /\ http /\ db /\ redis

\* The value Ready stores.
ReadyValue(subs, grpc, http, db, redis) == subs /\ grpc /\ http /\ db /\ redis

\* Ready, the end: the pings of the handles came out as c = <<isDBReady,
\* isRedisAlive>>, and isReady.Swap stores the conjunction.
ReadyFinishWith(c) ==
    /\ Running
    /\ rdy.pc = "http" /\ rdy.i > Len(HTTPServers)
    /\ isReady' = <<ReadyValue(rdy.subs, rdy.grpc, rdy.http, c[1], c[2])>>
    /\ rdy' = [rdy EXCEPT !.pc = "done", !.db = c[1], !.redis = c[2]]
    /\ UNCHANGED rdyFrame

ReadyFinish == \E c \in HandleChecks : ReadyFinishWith(c)

\* ---------------------------------------------------------------- IsAlive
aliveFrame == <<mainPc, cfgVars, ctx, svcVars, isReady, sigVars, consumer, tasks, rdy,
                retVars, stopVars, readyResp, healthVars>>

\* IsAlive is called (by the caller, or by the /health/live handler).
AliveCall ==
    /\ Running
    /\ alive.pc \in {"idle", "done"}
    /\ aliveCalls < MaxAliveCalls
    /\ aliveCalls' = aliveCalls + 1
    /\ alive' = EnterChecks(NoAlive)
    /\ UNCHANGED aliveFrame

AliveDialGRPC ==
    /\ Running
    /\ alive.pc = "grpc"
    /\ \E err \in DialGRPC(alive.i) : alive' = AfterDialGRPC(alive, err)
    /\ UNCHANGED <<aliveFrame, aliveCalls>>

AliveDialHTTP ==
    /\ Running
    /\ alive.pc = "http" /\ alive.i <= Len(HTTPServers)
    /\ LET err == DialHTTP(alive.i)
       IN  alive' = [AfterDialHTTP(alive, err) EXCEPT !.retried = @ \/ err # "nil"]
    /\ UNCHANGED <<aliveFrame, aliveCalls>>

\* The value IsAlive returns.
AliveValue(grpc, http, db, redis) == grpc /\ http /\ db /\ redis

AliveFinish ==
    /\ Running
    /\ alive.pc = "http" /\ alive.i > Len(HTTPServers)
    /\ \E c \in HandleChecks :
         alive' = [alive EXCEPT !.pc = "done", !.db = c[1], !.redis = c[2],
                                !.result = AliveValue(alive.grpc, alive.http, c[1], c[2])]
    /\ UNCHANGED <<aliveFrame, aliveCalls>>

\* ------------------------------------------------------- readiness query
Min(S) == CHOOSE x \in S : \A y \in S : x <= y

\* The handler of /ready and /health/ready over the flags it was built with: 503
\* at the first flag that is false, a panic (answered 500 by the router's
\* Recoverer) at a flag holding no value, 200 when every flag is true.
ready(areReady) ==
    LET bad == {i \in DOMAIN areReady : areReady[i] # <<TRUE>>}
    IN  IF bad = {} THEN 200
        ELSE IF areReady[Min(bad)] = <<>> THEN 500
        ELSE 503

\* A request to /ready or /health/ready reaches a serving status listener.
ReadyQuery ==
    /\ Running
    /\ \E i \in DOMAIN HTTPServers : HTTPServers[i].tech /\ HTTPReachable(i)
    /\ readyResp' = ready(<<isReady>>)
    /\ UNCHANGED <<mainPc, cfgVars, ctx, svcVars, isReady, sigVars, consumer, tasks, rdy,
                   retVars, stopVars, alive, aliveCalls, healthVars>>

\* ------------------------------------------------------------------- Stop
RECURSIVE Perms(_)
Perms(S) ==
    IF S = {} THEN {<<>>}
    ELSE UNION {{<<x>> \o p : p \in Perms(S \ {x})} : x \in S}

\* Mutant: Stop hands a fresh context.Background() to Shutdown.
ReleaseBackground(kind, id) == [res |-> <<kind, id>>, ctxLive |-> TRUE]

\* One release call of Stop; an HTTP Shutdown is handed s.ctx.
Release(kind, id) == [res |-> <<kind, id>>, ctxLive |-> kind = "http" => ctx # "cancelled"]

\* Mutant: Stop shuts the HTTP servers down in two passes.
ShutdownHTTPServersTwice ==
    [i \in 1..Len(HTTPServers) |-> Release("http", i)]
    \o [i \in 1..Len(HTTPServers) |-> Release("http", i)]

\* The five parts of Stop: the calls each makes, in order.
CloseSubServices(order) == [k \in 1..Len(order) |-> Release("sub", order[k])]
StopGRPCServers == [i \in 1..Len(GRPCServers) |-> Release("grpc", i)]
ShutdownHTTPServers == [i \in 1..Len(HTTPServers) |-> Release("http", i)]
CloseDB == IF DB # "nil" THEN <<Release("db", 0)>> ELSE <<>>
CloseRedis == IF Redis # "nil" THEN <<Release("redis", 0)>> ELSE <<>>

\* Mutant: Stop returns at the first failed release.
ContinueAfterAbort(failed) == ~failed

\* Whether Stop goes on after a part in which a release failed (the error is
\* only logged).
ContinueAfter(failed) == TRUE

\* The parts of Stop that can report a failure here: GracefulStop returns nothing.
CanFail ==
    (IF SubServices # {} THEN {"sub"} ELSE {})
    \cup (IF HTTPServers # <<>> THEN {"http"} ELSE {})
    \cup (IF DB # "nil" THEN {"db"} ELSE {})
    \cup (IF Redis # "nil" THEN {"redis"} ELSE {})

\* The release calls of one run of Stop up to os.Exit, when the sub-services
\* are visited in `order` and the parts in `fails` report a failure.
StopSequence(order, fails) ==
    LET a == CloseSubServices(order)
        b == a \o StopGRPCServers
        c == b \o ShutdownHTTPServers
        d == c \o CloseDB
    IN  IF ~ContinueAfter("sub" \in fails) THEN a
        ELSE IF ~ContinueAfter("http" \in fails) THEN c
        ELSE IF ~ContinueAfter("db" \in fails) THEN d
        ELSE d \o CloseRedis

FirstFailure(fails) ==
    IF "sub" \in fails THEN "sub"
    ELSE IF "http" \in fails THEN "http"
    ELSE IF "db" \in fails THEN "db"
    ELSE IF "redis" \in fails THEN "redis"
    ELSE "none"

\* Stop up to its last statement, run by the caller: right after New and the
\* configuration, or after Start returned (the example's deferred Stop).
StopRelease ==
    /\ mainPc \in {"config", "returned"}
    /\ stopCalls' = stopCalls + 1
    /\ \E order \in Perms(SubServices), fails \in SUBSET CanFail :
         /\ released' = released \o StopSequence(order, fails)
         /\ failedAt' = FirstFailure(fails)
    /\ mainPc' = "stop_exit"
    /\ UNCHANGED <<cfgVars, ctx, svcVars, isReady, sigVars, consumer, tasks, rdy,
                   retVars, probeVars>>

\* Mutant: Stop exits with 0 when no release failed.
StopExitStatusGraceful(failed) == IF failed = "none" THEN 0 ELSE 1

\* The status Stop hands to os.Exit, whichever release failed (if any).
StopExitStatus(failed) == 1

\* Stop, last statement: os.Exit(1) ends the process and every goroutine.
StopExit ==
    /\ mainPc = "stop_exit"
    /\ Die("exited")
    /\ exitStatus' = <<StopExitStatus(failedAt)>>
    /\ UNCHANGED <<cfgVars, ctx, svcVars, isReady, sigVars, consumer,
                   startRet, waitRet, stopVars, aliveCalls, readyResp, healthVars>>

\* ------------------------------------------------------------- health.go
\* AnswerWithJSONError(w, code): the status, and the payload as the body.
AnswerWithJSONError(code) ==
    [status |-> code, body |-> <<code, "error during request processing">>]

\* The handler of /health/live from checker i on: it calls the checkers in order
\* and answers with the error at the first that returns false.
RECURSIVE aliveFrom(_, _)
aliveFrom(areAlive, i) ==
    IF i > Len(areAlive) THEN [status |-> 200, body |-> <<>>]
    ELSE IF ~areAlive[i] THEN AnswerWithJSONError(503)
    ELSE aliveFrom(areAlive, i + 1)

\* Mutant: the handler answers from the first checker alone.
aliveHandlerFirstOnly(areAlive) ==
    IF areAlive # <<>> /\ ~areAlive[1] THEN AnswerWithJSONError(503)
    ELSE [status |-> 200, body |-> <<>>]

\* alive(areAlive): the handler, given what each checker returns at this request.
aliveHandler(areAlive) == aliveFrom(areAlive, 1)

\* A checker's answer changes between two requests.
FlipChecker ==
    /\ \E i \in DOMAIN checkers : checkers' = [checkers EXCEPT ![i] = ~@]
    /\ UNCHANGED <<mainPc, cfgVars, ctx, svcVars, isReady, sigVars, consumer, tasks, rdy,
                   retVars, stopVars, alive, aliveCalls, readyResp, liveLog>>

\* GET /health/live is served.
LiveRequest ==
    /\ Len(liveLog) < MaxRequests
    /\ liveLog' = Append(liveLog, [vals |-> checkers, resp |-> aliveHandler(checkers)])
    /\ UNCHANGED <<mainPc, cfgVars, ctx, svcVars, isReady, sigVars, consumer, tasks, rdy,
                   retVars, stopVars, alive, aliveCalls, readyResp, checkers>>

\* ------------------------------------------------------- specifications
\* The orchestrator's life without status requests.
Next ==
    \/ New
    \/ AddHTTPServer
    \/ AddSubService
    \/ InstallTrap
    \/ DrainErrChan
    \/ CancelCtx
    \/ TermSignal
    \/ StartSpawn
    \/ StartReturn
    \/ \E t \in DOMAIN tasks : HTTPListen(t)
    \/ \E t \in DOMAIN tasks : HTTPServeEnd(t)
    \/ \E t \in DOMAIN tasks : GRPCListen(t)
    \/ \E t \in DOMAIN tasks : GRPCServe(t)
    \/ \E t \in DOMAIN tasks : GRPCServeEnd(t)
    \/ \E t \in DOMAIN tasks : SendErr(t)
    \/ ReadySubs
    \/ ReadyDialGRPC
    \/ ReadyDialHTTP
    \/ ReadyFinish
    \/ StopRelease
    \/ StopExit

Spec == Init /\ [][Next]_vars

\* The orchestrator under status requests, for a caller that configures nothing
\* beyond the options and AddHTTPServer and stops by cancelling the context.
ProbeNext ==
    \/ New
    \/ AddHTTPServer
    \/ CancelCtx
    \/ StartSpawn
    \/ StartReturn
    \/ \E t \in DOMAIN tasks : HTTPListen(t)
    \/ \E t \in DOMAIN tasks : HTTPServeEnd(t)
    \/ \E t \in DOMAIN tasks : GRPCListen(t)
    \/ \E t \in DOMAIN tasks : GRPCServe(t)
    \/ \E t \in DOMAIN tasks : GRPCServeEnd(t)
    \/ ReadySubs
    \/ ReadyDialGRPC
    \/ ReadyDialHTTP
    \/ ReadyFinish
    \/ AliveCall
    \/ AliveDialGRPC
    \/ AliveDialHTTP
    \/ AliveFinish
    \/ ReadyQuery
    \/ StopRelease
    \/ StopExit

ProbeSpec == Init /\ [][ProbeNext]_vars

\* New alone, on every option list up to MaxOpts.
NewSpec == Init /\ [][NewAny]_vars

\* A health handler built with up to MaxCheckers checkers, serving requests.
HealthInit ==
    /\ checkers \in SeqsUpTo(BOOLEAN, MaxCheckers)
    /\ liveLog = <<>>
    /\ mainPc = "new"
    /\ options = <<>>
    /\ applyLog = <<>>
    /\ service = "none"
    /\ newErr = 0
    /\ ctx = "live"
    /\ GRPCServers = <<>>
    /\ HTTPServers = <<>>
    /\ DB = "nil"
    /\ Redis = "nil"
    /\ SubServices = {}
    /\ isReady = <<>>
    /\ sigHandler = "nil"
    /\ trap = 0
    /\ consumer = FALSE
    /\ tasks = <<>>
    /\ rdy = NoTask
    /\ alive = NoAlive
    /\ aliveCalls = 0
    /\ startRet = "none"
    /\ waitRet = "none"
    /\ exitStatus = <<>>
    /\ stopCalls = 0
    /\ released = <<>>
    /\ failedAt = "none"
    /\ readyResp = 0

HealthNext == FlipChecker \/ LiveRequest

HealthSpec == HealthInit /\ [][HealthNext]_vars

\* A deployment in which everything is healthy: every bind succeeds, no listener
\* stops serving, the sub-services report ready, the pings are good, nobody
\* cancels the context and no signal arrives.  The Go scheduler runs every
\* goroutine that can take a step, and a client keeps querying readiness.
HealthyHTTPListen == \E t \in DOMAIN tasks : HTTPListen(t) /\ tasks'[t].pc = "serving"
HealthyGRPCListen == \E t \in DOMAIN tasks : GRPCListen(t) /\ tasks'[t].pc = "listening"
HealthyGRPCServe == \E t \in DOMAIN tasks : GRPCServe(t)
HealthyReadySubs == ReadySubsWith(TRUE)
HealthyReadyFinish == ReadyFinishWith(<<checkDBAlive("nil"), checkRedisAlive("PONG", "nil")>>)

HealthyNext ==
    \/ New
    \/ AddHTTPServer
    \/ AddSubService
    \/ StartSpawn
    \/ HealthyHTTPListen
    \/ HealthyGRPCListen
    \/ HealthyGRPCServe
    \/ HealthyReadySubs
    \/ ReadyDialGRPC
    \/ ReadyDialHTTP
    \/ HealthyReadyFinish
    \/ ReadyQuery

HealthyFairness ==
    /\ WF_vars(HealthyHTTPListen)
    /\ WF_vars(HealthyGRPCListen)
    /\ WF_vars(HealthyGRPCServe)
    /\ WF_vars(HealthyReadySubs)
    /\ WF_vars(ReadyDialGRPC)
    /\ WF_vars(ReadyDialHTTP)
    /\ WF_vars(HealthyReadyFinish)
    /\ WF_vars(ReadyQuery)

HealthySpec == Init /\ [][HealthyNext]_vars /\ HealthyFairness

\* ================================================================ claims
Rank(kind) ==
    CASE kind = "sub" -> 1 [] kind = "grpc" -> 2 [] kind = "http" -> 3
      [] kind = "db" -> 4 [] kind = "redis" -> 5

ExpectedReleases ==
    {<<"sub", x>> : x \in SubServices}
    \cup {<<"grpc", i>> : i \in 1..Len(GRPCServers)}
    \cup {<<"http", i>> : i \in 1..Len(HTTPServers)}
    \cup (IF DB # "nil" THEN {<<"db", 0>>} ELSE {})
    \cup (IF Redis # "nil" THEN {<<"redis", 0>>} ELSE {})

\* C1: when Stop has reached os.Exit, every sub-service, gRPC server, HTTP server
\* and attached handle has had its release call, each once, in the order
\* sub-services, gRPC, HTTP, database, cache -- whichever releases failed.
C1_StopRunsAllStepsInOrder ==
    mainPc \in {"stop_exit", "exited"} =>
        /\ {released[k].res : k \in DOMAIN released} = ExpectedReleases
        /\ Len(released) = Cardinality(ExpectedReleases)
        /\ \A j, k \in DOMAIN released :
              j < k => Rank(released[j].res[1]) <= Rank(released[k].res[1])

\* A sub-service's Close failed, and Stop still released one resource of each
\* of the other four kinds before os.Exit.
C1_Witness ==
    /\ mainPc = "stop_exit"
    /\ failedAt = "sub"
    /\ {released[k].res[1] : k \in DOMAIN released} = {"sub", "grpc", "http", "db", "redis"}

\* C2: once the process is over and a termination signal had arrived while the
\* caller was blocked in Start, Start has returned and Stop was called exactly once.
C2_SignalEndsStartThenStopOnce ==
    (Ended /\ (mainPc = "killed_in_start" \/ startRet = "nil")) =>
        (startRet # "none" /\ stopCalls = 1)

\* C3: a listener goroutine that is sending its failure to ErrChan can complete
\* the send (so it never stays blocked in it), whoever else runs.
C3_ErrorSendCompletes ==
    \A t \in DOMAIN tasks : tasks[t].pc = "sending" => ENABLED SendErr(t)

Started == mainPc \in {"waiting", "returned"} \/ (mainPc = "stop_exit" /\ startRet # "none")

\* C4: before Start there is no listener goroutine; once Start has spawned, there
\* are exactly as many goroutines as registered listeners, exactly one for each
\* HTTP server and each gRPC server, and each has called its bind (ListenAndServe,
\* net.Listen) at most once, exactly once when it has moved on.
C4_OneTaskPerListener ==
    /\ mainPc \in {"new", "config"} => tasks = <<>>
    /\ Started =>
        /\ Len(tasks) = Listeners
        /\ \A i \in 1..Len(HTTPServers) :
              Cardinality({t \in DOMAIN tasks : tasks[t].kind = "http" /\ tasks[t].srv = i}) = 1
        /\ \A i \in 1..Len(GRPCServers) :
              Cardinality({t \in DOMAIN tasks : tasks[t].kind = "grpc" /\ tasks[t].srv = i}) = 1
        /\ \A t \in DOMAIN tasks :
              /\ tasks[t].binds <= 1
              /\ tasks[t].pc # "spawned" => tasks[t].binds = 1

\* Start is blocked with an HTTP and a gRPC goroutine, both past their bind.
C4_Witness ==
    /\ mainPc = "waiting"
    /\ Len(tasks) = 2
    /\ tasks[1].kind = "http" /\ tasks[1].pc # "spawned"
    /\ tasks[2].kind = "grpc" /\ tasks[2].pc # "spawned"

\* C5: a listener goroutine sends at most one error: exactly one when its bind or
\* serve failed with another error than closed/stopped, none while it runs, and
\* none when its call ended because the server was closed.
C5_AtMostOneTerminalError ==
    \A t \in DOMAIN tasks :
        /\ tasks[t].errs <= 1
        /\ tasks[t].end = "none" => tasks[t].errs = 0 /\ tasks[t].pc \notin {"sending", "done"}
        /\ tasks[t].end = "failed" => tasks[t].errs = 1 /\ tasks[t].pc \in {"sending", "done"}
        /\ tasks[t].end = "closed" => tasks[t].errs = 0 /\ tasks[t].pc = "done"

\* One goroutine's failure was sent and received, another ended on Stop's close.
C5_Witness ==
    \E t, u \in DOMAIN tasks :
        /\ tasks[t].end = "failed" /\ tasks[t].pc = "done" /\ tasks[t].errs = 1
        /\ tasks[u].end = "closed" /\ tasks[u].errs = 0
        /\ mainPc = "stop_exit"

C6_State ==
    mainPc # "new" =>
        /\ isReady \in {<<FALSE>>, <<TRUE>>}
        /\ readyResp \in {0, 200, 503}
        /\ (Running /\ rdy.pc # "done") => (isReady = <<FALSE>> /\ readyResp \in {0, 503})

\* C6: from construction on the readiness flag holds a boolean, false until the
\* readiness evaluation has completed; after New's initialisation only the end of
\* Ready writes it (no step of Start, Stop, IsAlive, a listener goroutine or a
\* query does); a query before the evaluation completed is answered 503, never 500.
C6_ReadinessFlag ==
    /\ []C6_State
    /\ [][isReady' # isReady =>
            \/ mainPc = "new"
            \/ rdy.pc = "http" /\ rdy'.pc = "done"]_vars

\* A readiness query was answered 503 while the evaluation was still running.
C6_Witness == Running /\ rdy.pc \in {"subs", "grpc", "http"} /\ readyResp = 503

AllTrue(vals) == \A i \in DOMAIN vals : vals[i]

\* C7: every liveness request is answered 200 with an empty body iff every
\* checker returned true at that request, and 503 with the error payload
\* otherwise; a request at which a checker has turned false after a request
\* at which all were true is answered 503 after 200.
C7_LivenessFresh ==
    /\ \A k \in DOMAIN liveLog :
          /\ liveLog[k].resp.status = 200 <=> AllTrue(liveLog[k].vals)
          /\ liveLog[k].resp.status = 200 => liveLog[k].resp.body = <<>>
          /\ liveLog[k].resp.status # 200 =>
                /\ liveLog[k].resp.status = 503
                /\ liveLog[k].resp.body = <<503, "error during request processing">>
    /\ \A k \in DOMAIN liveLog :
          (k + 1 \in DOMAIN liveLog /\ AllTrue(liveLog[k].vals) /\ ~AllTrue(liveLog[k + 1].vals))
            => (liveLog[k].resp.status = 200 /\ liveLog[k + 1].resp.status = 503)

\* Two requests to a handler with several checkers: all true, then the last false.
C7_Witness ==
    /\ Len(liveLog) = 2
    /\ Len(checkers) >= 2
    /\ AllTrue(liveLog[1].vals)
    /\ liveLog[2].vals[1] /\ ~liveLog[2].vals[Len(checkers)]
    /\ liveLog[2].resp.status = 503

\* C8: a call of IsAlive that has returned returned true iff all four
\* sub-conditions held when it checked them: the gRPC dials succeeded, no HTTP
\* dial was refused, the database ping and the cache ping were good (or the
\* handle is absent).
C8_AliveIffAllSubconditions ==
    alive.pc = "done" =>
        (alive.result <=> (alive.grpc /\ ~alive.retried /\ alive.db /\ alive.redis))

FirstFail(opts) ==
    IF \E i \in DOMAIN opts : opts[i] = "fail"
    THEN Min({i \in DOMAIN opts : opts[i] = "fail"}) ELSE 0

AppliedUpTo(opts) == IF FirstFail(opts) = 0 THEN Len(opts) ELSE FirstFail(opts) - 1

Increasing(seq) == \A i, j \in DOMAIN seq : i < j => seq[i] < seq[j]

\* C9: after New, with k the first failing option (0: none) and m the options
\* before it (all, when none fails): Apply was called on options 1..k (1..m when
\* none fails) in order and on no other; New returned option k's error and nil,
\* or no error and the orchestrator; and the struct holds exactly the effect of
\* options 1..m, the listeners in the options' order.
C9_OptionsInOrderFirstFailureAborts ==
    service # "none" =>
        LET k == FirstFail(options)
            m == AppliedUpTo(options)
        IN  /\ Len(applyLog) = (IF k = 0 THEN m ELSE k)
            /\ \A i \in DOMAIN applyLog : applyLog[i] = i
            /\ newErr = k
            /\ service = (IF k = 0 THEN "svc" ELSE "nil")
            /\ Increasing(GRPCServers)
            /\ Range(GRPCServers) = {i \in 1..m : options[i] = "grpc"}
            /\ Increasing([i \in DOMAIN HTTPServers |-> HTTPServers[i].Addr])
            /\ {HTTPServers[i].Addr : i \in DOMAIN HTTPServers}
                 = {i \in 1..m : options[i] = "tech"}
            /\ DB = (IF \E i \in 1..m : options[i] = "db" THEN "db" ELSE "nil")
            /\ Redis = (IF \E i \in 1..m : options[i] = "redis" THEN "redis" ELSE "nil")

\* New was given three options, the second failed: the first was applied, the
\* third was not, and New returned nil.
C9_Witness ==
    /\ Len(options) = 3
    /\ options[1] = "grpc" /\ options[2] = "fail" /\ options[3] = "grpc"
    /\ GRPCServers = <<1>>
    /\ service = "nil"

C10_State ==
    /\ mainPc \in {"new", "config", "waiting"} => startRet = "none"
    /\ mainPc = "returned" => startRet \in {"nil", "ctxErr"}
    /\ startRet = "ctxErr" => ctx = "cancelled"

\* C10: Start has not returned while the caller is blocked in it; it returns only
\* from the blocked wait, with nil by taking a termination signal out of the
\* trap, or with the context's error when the context is cancelled; no step of
\* a listener goroutine or of Ready makes it return.
C10_StartReturnsWhenTrapResolves ==
    /\ []C10_State
    /\ [][startRet' # startRet =>
            /\ mainPc = "waiting" /\ mainPc' = "returned"
            /\ \/ startRet' = "nil" /\ sigHandler = "trap" /\ trap = 1 /\ trap' = 0
               \/ startRet' = "ctxErr" /\ ctx = "cancelled"]_vars

\* Start returned nil on a signal while the readiness evaluation was still running.
C10_Witness ==
    /\ mainPc = "returned"
    /\ startRet = "nil"
    /\ rdy.pc \in {"subs", "grpc", "http"}

SignalDelivered == sigHandler = "trap" /\ trap > 0

C11_State ==
    /\ waitRet = "none" <=> startRet = "none"
    /\ mainPc = "waiting" =>
        /\ (~SignalDelivered /\ ctx = "live") => (WaitResults = {} /\ ~ENABLED StartReturn)
        /\ (SignalDelivered /\ ctx = "live") => WaitResults = {"ErrTermSig"}
        /\ (~SignalDelivered /\ ctx = "cancelled") => WaitResults = {"ctxErr"}
        /\ (SignalDelivered \/ ctx = "cancelled") => ENABLED StartReturn

\* C11: Wait blocks (Start, its caller, cannot go on) while no signal is in the
\* trap and the context is live; it returns ErrTermSig only by taking a delivered
\* signal out of the trap, and the context's error only when the context is done;
\* when exactly one of the two has happened, that one is its only result.
C11_WaitResolvesWithWhatHappened ==
    /\ []C11_State
    /\ [][waitRet' # waitRet =>
            /\ mainPc = "waiting" /\ waitRet = "none"
            /\ \/ waitRet' = "ErrTermSig" /\ SignalDelivered /\ trap' = trap - 1
               \/ waitRet' = "ctxErr" /\ ctx = "cancelled" /\ trap' = trap]_vars

\* Wait returned ErrTermSig while the context was still live.
C11_Witness == waitRet = "ErrTermSig" /\ ctx = "live" /\ mainPc = "returned"

C12_State ==
    /\ (Running /\ rdy.pc = "done") =>
          isReady = <<rdy.subs /\ rdy.grpc /\ rdy.http /\ rdy.db /\ rdy.redis>>
    /\ (Running /\ mainPc # "config" /\ rdy.pc # "done") => isReady = <<FALSE>>

\* C12: after Start the flag is written by one step only, the end of the one
\* readiness evaluation, with the conjunction of what that evaluation observed
\* (sub-services, gRPC dials, HTTP dials, database ping, cache ping); once the
\* evaluation is done it never runs again and the flag keeps its value, whatever
\* the listeners and the context do afterwards.
C12_ReadinessWrittenOnce ==
    /\ []C12_State
    /\ [][(isReady' # isReady /\ mainPc # "new") =>
            (rdy.pc = "http" /\ rdy.i > Len(HTTPServers) /\ rdy'.pc = "done")]_vars
    /\ [][rdy.pc = "done" => (rdy'.pc \in {"done", "none"} /\ isReady' = isReady)]_vars
    /\ [][rdy'.pc = "done" /\ rdy.pc # "done" =>
            /\ rdy.pc = "http"
            /\ rdy'.subs = rdy.subs /\ rdy'.grpc = rdy.grpc /\ rdy'.http = rdy.http]_vars

\* The evaluation stored true, and afterwards a listener went down with an error:
\* the flag is still true.
C12_Witness ==
    /\ Running /\ rdy.pc = "done" /\ isReady = <<TRUE>>
    /\ \E t \in DOMAIN tasks : tasks[t].end = "failed"

\* C13: a call of Stop does not return: once Stop was called the caller is in
\* Stop or the process is over; os.Exit is reached only from Stop, after every
\* release call of the five steps, and its status is 1 both when every release
\* succeeded and when one failed; Stop is called at most once.
C13_StopExitsNonZero ==
    /\ stopCalls <= 1
    /\ stopCalls = 1 => mainPc \in {"stop_exit", "exited", "killed"}
    /\ exitStatus # <<>> <=> mainPc = "exited"
    /\ mainPc = "exited" =>
          /\ exitStatus = <<1>>
          /\ stopCalls = 1
          /\ {released[k].res : k \in DOMAIN released} = ExpectedReleases

\* Stop exited with status 1 after a run in which no release failed and
\* resources of three kinds were released.
C13_Witness ==
    /\ mainPc = "exited" /\ exitStatus = <<1>> /\ failedAt = "none"
    /\ Cardinality({released[k].res[1] : k \in DOMAIN released}) >= 3

ReleaseCount(r) == Cardinality({k \in DOMAIN released : released[k].res = r})

C14_State ==
    /\ \A r \in ExpectedReleases : ReleaseCount(r) <= 1
    /\ \A k \in DOMAIN released : released[k].res \in ExpectedReleases
    /\ released # <<>> => stopCalls = 1
    /\ stopCalls = 0 => released = <<>>
    /\ stopCalls = 1 => \A r \in ExpectedReleases : ReleaseCount(r) = 1

HTTPDown(i) ==
    \E t \in DOMAIN tasks :
        tasks[t].kind = "http" /\ tasks[t].srv = i /\ tasks[t].pc \in {"sending", "done"}

\* C15: a reachability check of an HTTP listener that will never be reachable can
\* end with false, in the readiness evaluation and in IsAlive: the check has a
\* step after which its result for the HTTP listeners is false.
C15_HTTPCheckTerminates ==
    /\ (Running /\ rdy.pc = "http" /\ rdy.i <= Len(HTTPServers) /\ HTTPDown(rdy.i))
          => ENABLED (ReadyDialHTTP /\ ~rdy'.http)
    /\ (Running /\ alive.pc = "http" /\ alive.i <= Len(HTTPServers) /\ HTTPDown(alive.i))
          => ENABLED (AliveDialHTTP /\ ~alive'.http)

\* One step of checkGRPCServerUp from p to q: the dial of address p.i succeeded
\* and the next address is up, or it was the last; or the dial failed and the
\* check is over with false.
GRPCCheckStep(p, q) ==
    \/ /\ q.pc = "grpc" /\ q.i = p.i + 1 /\ p.i < Len(GRPCServers)
       /\ q.grpc /\ GRPCReachable(p.i)
    \/ /\ q.pc = "http" /\ p.i = Len(GRPCServers)
       /\ q.grpc /\ GRPCReachable(p.i)
    \/ /\ q.pc = "http" /\ ~q.grpc /\ ctx = "cancelled"

C16_State ==
    /\ rdy.pc = "grpc" => (rdy.grpc /\ rdy.i \in 1..Len(GRPCServers))
    /\ alive.pc = "grpc" => (alive.grpc /\ alive.i \in 1..Len(GRPCServers))

\* C16: the gRPC check, in Ready and in IsAlive, starts at the first address and
\* dials one address per step, in order; a successful dial moves it to the next
\* address, or ends it with true at the last; a failed dial ends it with false at
\* once, whatever addresses remain.
C16_GRPCCheckInOrderFirstFailure ==
    /\ []C16_State
    /\ [][(rdy.pc = "grpc" /\ rdy' # rdy /\ rdy'.pc # "none") => GRPCCheckStep(rdy, rdy')]_vars
    /\ [][(alive.pc = "grpc" /\ alive' # alive /\ alive'.pc # "idle")
            => GRPCCheckStep(alive, alive')]_vars
    /\ [][(rdy'.pc = "grpc" /\ rdy.pc # "grpc") => rdy'.i = 1]_vars
    /\ [][(alive'.pc = "grpc" /\ alive.pc # "grpc") => alive'.i = 1]_vars

\* IsAlive returned false after a failed gRPC dial, with two gRPC servers
\* registered, while Ready reached both.
C16_Witness ==
    /\ Len(GRPCServers) = 2
    /\ alive.pc = "done" /\ ~alive.grpc /\ ~alive.result
    /\ rdy.pc = "done" /\ rdy.grpc

HasStatusListener == \E i \in DOMAIN HTTPServers : HTTPServers[i].tech

\* C18: in a healthy deployment, once Start has spawned its goroutines the
\* readiness evaluation eventually completes with the flag true, however the
\* binds and the evaluation interleave, and the flag then stays true; with a
\* status listener, a readiness query is eventually answered 200.
C18_HealthyBecomesReady ==
    /\ (mainPc = "waiting") ~> [](rdy.pc = "done" /\ isReady = <<TRUE>>)
    /\ (mainPc = "waiting" /\ HasStatusListener) ~> (readyResp = 200)

\* One status listener and nothing else: the evaluation has completed with
\* true and a readiness query was answered 200.
C18_Witness ==
    /\ options = <<"tech">> /\ Len(HTTPServers) = 1 /\ SubServices = {}
    /\ rdy.pc = "done" /\ isReady = <<TRUE>>
    /\ readyResp = 200

C19_State ==
    sigHandler = "nil" =>
        /\ startRet # "nil"
        /\ mainPc = "returned" => (startRet = "ctxErr" /\ ctx = "cancelled")
        /\ (mainPc = "waiting" /\ ctx = "live") => ~ENABLED StartReturn
        /\ (mainPc = "waiting" /\ ctx = "cancelled") => ENABLED StartReturn

\* C19: with the trap field as New leaves it (nil), Start never returns nil; it
\* can return, with the context's error, exactly when the context is cancelled;
\* and while the context is live the caller stays blocked in Start (unless the
\* process is ended from outside).
C19_NilTrapStartResolvesByContextOnly ==
    /\ []C19_State
    /\ [][(sigHandler = "nil" /\ startRet' # startRet) =>
            (startRet' = "ctxErr" /\ ctx = "cancelled")]_vars
    /\ [][(sigHandler = "nil" /\ mainPc = "waiting" /\ ctx = "live") =>
            mainPc' \in {"waiting", "killed_in_start"}]_vars

\* Start of an orchestrator without a trap returned the context's error while
\* the readiness evaluation had stored its value.
C19_Witness ==
    /\ sigHandler = "nil" /\ mainPc = "returned" /\ startRet = "ctxErr"
    /\ rdy.pc = "done"

\* C20: when Start has returned an error the context is cancelled, and every HTTP
\* Shutdown of a Stop that follows was handed a context that was already
\* cancelled; a Shutdown was handed a live context only in a Stop that ran
\* without Start having returned an error.
C20_ShutdownGetsCancelledContext ==
    /\ startRet = "ctxErr" => ctx = "cancelled"
    /\ \A k \in DOMAIN released :
          released[k].res[1] = "http" =>
              /\ startRet = "ctxErr" => ~released[k].ctxLive
              /\ released[k].ctxLive => startRet \in {"none", "nil"}

\* Start returned the context's error and the Stop that followed shut down two
\* HTTP servers, both with the cancelled context.
C20_Witness ==
    /\ mainPc = "stop_exit" /\ startRet = "ctxErr"
    /\ Len(HTTPServers) = 2
    /\ \A i \in 1..2 : \E k \in DOMAIN released :
          released[k].res = <<"http", i>> /\ ~released[k].ctxLive
====
